---- MODULE Spec2Model ----
(***************************************************************************)
(* Model of the metafield translation proxy: the HTTP handler              *)
(* POST /api/get-translated-metafield and the fallback chain               *)
(* getOrCreateMetafieldTranslation, in its two repository variants:        *)
(*   "mt"   src/index.js          (Google Translate + two registrations)   *)
(*   "nomt" src/unnamed/part_000  (three-endpoint trigger, one mutation)   *)
(* Every await of the code is a suspension point: an action of the model   *)
(* runs from the arrival of one upstream response to the issue of the next *)
(* upstream call.  Upstream responses are chosen nondeterministically.     *)
(***************************************************************************)
EXTENDS Naturals, Integers, Sequences, FiniteSets, TLC

\* ---------------------------------------------------------------- bounds
MaxLen == 4          \* longest original metafield value (characters)
MaxGoogleLen == 2    \* longest text returned by the translation API
MaxList == 2         \* longest list returned by an upstream query

\* --------------------------------------------------------------- strings
\* A JavaScript string value is a sequence of one-character strings.
\* null / undefined is the one-element sequence Null, which is no string.
Null == <<"null">>
OrigAlphabet == {"a", "~"}
GoogleAlphabet == {"b", "~"}
SEP == <<"~", "~">>

StringsOver(alphabet, n) == UNION {[1..k -> alphabet] : k \in 0..n}

\* JS truthiness of a string-or-null value: null, undefined and "" are falsy.
Truthy(v) == v # Null /\ v # <<>>

\* JS truthiness of the atoms used for ids, names and response bodies.
TruthyAtom(a) == a \notin {"undefined", "null", ""}

\* Index of the first occurrence of "~~" in s, 0 if there is none.
FirstSep(s) ==
    LET hits == {i \in 1..(Len(s) - 1) : s[i] = "~" /\ s[i + 1] = "~"}
    IN  IF hits = {} THEN 0 ELSE CHOOSE i \in hits : \A j \in hits : i <= j

\* String.prototype.split('~~'): leftmost, non-overlapping separators.
RECURSIVE Split(_)
Split(s) ==
    LET i == FirstSep(s)
    IN  IF i = 0 THEN <<s>>
        ELSE <<SubSeq(s, 1, i - 1)>> \o Split(SubSeq(s, i + 2, Len(s)))

\* Array.prototype.slice(1)
Slice1(parts) == IF Len(parts) <= 1 THEN <<>> ELSE SubSeq(parts, 2, Len(parts))

\* Array.prototype.join('~~')
RECURSIVE Join(_)
Join(parts) ==
    IF Len(parts) = 0 THEN <<>>
    ELSE IF Len(parts) = 1 THEN parts[1]
    ELSE parts[1] \o SEP \o Join(Slice1(parts))

\* `metafields.${namespace}.${key}`
MetafieldKey(namespace, key) == <<"metafields", namespace, key>>

\* Find comparing against `${namespace}.${key}`, the prefix forgotten.
Find_KeyWithoutPrefix(list, metafieldKey) ==
    LET bare == <<metafieldKey[2], metafieldKey[3]>>
        hits == {i \in 1..Len(list) : list[i].key = bare}
    IN  IF hits = {} THEN <<>>
        ELSE <<list[CHOOSE i \in hits : \A j \in hits : i <= j]>>

\* Array.prototype.find(t => t.key === metafieldKey): <<>> stands for
\* undefined, <<e>> for the first matching element e.
Find(list, metafieldKey) ==
    LET hits == {i \in 1..Len(list) : list[i].key = metafieldKey}
    IN  IF hits = {} THEN <<>>
        ELSE <<list[CHOOSE i \in hits : \A j \in hits : i <= j]>>

\* ------------------------------------------------------------ the state
VARIABLES
    variant,   \* which file is deployed: "mt" (index.js) or "nomt" (part_000)
    inv        \* per HTTP request: the handler's and the orchestrator's locals

vars == <<variant, inv>>

Reqs == {"r1"}
Variants == {"mt", "nomt"}

\* The endpoint shapes probed by the three-endpoint trigger, in order.
Endpoints == <<"auto_translate_flat", "auto_translate_nested", "translatable_resources">>

ERR_PREFIX == "Failed to get or create metafield translation: "
ERR_GRAPHQL == "GraphQL request failed: "
ERR_NOT_FOUND == "Metafield not found"
ERR_TYPE == "TypeError: cannot read properties of null"
ERR_NETWORK == "Network Error"
ERR_MISSING == "Missing required parameters: productId, namespace, key"

NoResult ==
    [kind |-> "none", value |-> Null, locale |-> "undefined",
     isTranslated |-> FALSE, source |-> "undefined", message |-> "undefined",
     error |-> <<>>]

NoHttp ==
    [status |-> 0, success |-> FALSE, error |-> <<>>, value |-> Null,
     locale |-> "undefined", isTranslated |-> FALSE, source |-> "undefined",
     requestedLocale |-> "undefined", metafieldKey |-> <<>>,
     message |-> "undefined"]

NoGql == [called |-> FALSE, transportOk |-> FALSE, bodyErrors |-> FALSE,
          shape |-> "none", threw |-> FALSE]

NoGoogle == [transport |-> "none", wellFormed |-> FALSE, text |-> <<>>]

NoMutation == [answered |-> FALSE, transportOk |-> FALSE, hasBody |-> FALSE,
               errors |-> FALSE, userErrors |-> FALSE, translations |-> FALSE]

NoInput == [locale |-> "undefined", key |-> <<>>, value |-> Null]

NoBody == [productId |-> "undefined", namespace |-> "undefined",
           key |-> "undefined", locale |-> "undefined"]

InitInv ==
    [pc |-> "idle",
     body |-> NoBody,
     productId |-> "undefined", namespace |-> "undefined", key |-> "undefined",
     targetLocale |-> "undefined",
     checkSaw |-> {},
     existingTranslation |-> <<>>,
     origShape |-> "none",
     originalValue |-> Null,
     endpoint |-> 0,
     triggerSaw |-> <<>>,
     autoTranslateResult |-> "null",
     delays |-> 0,
     recheckSaw |-> {},
     autoTranslation |-> <<>>,
     gtSent |-> Null,
     gtReply |-> NoGoogle,
     googleTranslatedValue |-> Null,
     digestKeySeen |-> FALSE,
     digest |-> "null",
     mutationSent |-> NoInput,
     mutationSaw |-> NoMutation,
     restSent |-> NoInput,
     mutationResult |-> "null",
     restResult |-> "null",
     gql |-> NoGql,
     issued |-> <<>>,
     inflight |-> {},
     result |-> NoResult,
     http |-> NoHttp]

Init ==
    /\ variant \in Variants
    /\ inv = [r \in Reqs |-> InitInv]

\* -------------------------------------------------- upstream responses
\* What axios.post can resolve or reject with.  transport = "fail" covers a
\* network error and every non-2xx status (axios rejects both).
Lists(S) == UNION {[1..k -> S] : k \in 0..MaxList}

\* Values of stored translations (the platform stores no blank translation).
TransValues == {<<"b">>, <<"c">>}

OtherKey(namespace) == MetafieldKey(namespace, "title")

\* Responses to the existing-translation query.  shape "nodata" is a body
\* whose data is null, "noresource" one whose translatableResource is null.
CheckResponses(namespace, key) ==
    {[transport |-> "fail", errors |-> FALSE, shape |-> "none", list |-> <<>>]}
    \cup [transport : {"ok"}, errors : BOOLEAN,
          shape : {"nodata", "noresource"}, list : {<<>>}]
    \cup [transport : {"ok"}, errors : BOOLEAN, shape : {"full"},
          list : Lists([key : {MetafieldKey(namespace, key), OtherKey(namespace)},
                        value : TransValues])]

\* Responses to the original-value query.  shape "noproduct": product is
\* null; "nometafield": metafield is null; "full": metafield.value = value.
OriginalResponses ==
    {[transport |-> "fail", errors |-> FALSE, shape |-> "none", value |-> Null]}
    \cup [transport : {"ok"}, errors : BOOLEAN,
          shape : {"nodata", "noproduct", "nometafield"}, value : {Null}]
    \cup [transport : {"ok"}, errors : BOOLEAN, shape : {"full"},
          value : {Null} \cup StringsOver(OrigAlphabet, MaxLen)]

Digests == {"null", "", "d1"}

\* Responses to the translatable-content (digest) query.
DigestResponses(namespace, key) ==
    {[transport |-> "fail", errors |-> FALSE, shape |-> "none", list |-> <<>>]}
    \cup [transport : {"ok"}, errors : BOOLEAN,
          shape : {"nodata", "noresource"}, list : {<<>>}]
    \cup [transport : {"ok"}, errors : BOOLEAN, shape : {"full"},
          list : Lists([key : {MetafieldKey(namespace, key), OtherKey(namespace)},
                        digest : Digests])]

\* Responses to a plain POST whose body is used as a whole: a JSON object
\* ("object") or an empty body ("").
PostResponses ==
    {[transport |-> "fail", body |-> "null"]}
    \cup [transport : {"ok"}, body : {"object", ""}]

\* Responses to the translationsRegister mutation.  shape "empty": no body;
\* "nodata": data is null (request-level errors); "noregister":
\* translationsRegister is null; "full": userErrors and translations are
\* lists of the given lengths, -1 standing for null / undefined.
MutationResponses ==
    {[transport |-> "fail", errors |-> FALSE, shape |-> "none",
      userErrors |-> -1, translations |-> -1]}
    \cup [transport : {"ok"}, errors : BOOLEAN,
          shape : {"empty", "nodata", "noregister"},
          userErrors : {-1}, translations : {-1}]
    \cup [transport : {"ok"}, errors : BOOLEAN, shape : {"full"},
          userErrors : -1..MaxList, translations : -1..MaxList]

\* Responses of the translation API to the text q.  wellFormed = FALSE: a
\* 2xx body without data.translations[0].  The translation of the empty
\* text is empty, that of any other text is not.
GoogleResponses(q) ==
    {[transport |-> "fail", wellFormed |-> FALSE, text |-> <<>>]}
    \cup {[transport |-> "ok", wellFormed |-> FALSE, text |-> <<>>]}
    \cup [transport : {"ok"}, wellFormed : {TRUE},
          text : IF q = <<>> THEN {<<>>}
                 ELSE StringsOver(GoogleAlphabet, MaxGoogleLen) \ {<<>>}]

\* The values a translations response carries under the dotted key (what
\* the upstream sent, independently of how the code searches it).
ValuesUnder(resp, metafieldKey) ==
    IF resp.transport = "ok" /\ resp.shape = "full"
    THEN {resp.list[i].value :
            i \in {j \in 1..Len(resp.list) : resp.list[j].key = metafieldKey}}
    ELSE {}

\* Whether a translatable-content response lists the dotted key at all.
KeyListed(resp, metafieldKey) ==
    /\ resp.transport = "ok"
    /\ resp.shape = "full"
    /\ \E i \in 1..Len(resp.list) : resp.list[i].key = metafieldKey

\* What a translationsRegister response carries: a body at all, top-level
\* errors, at least one user error, at least one registered translation.
MutationSaw(resp) ==
    [answered |-> TRUE,
     transportOk |-> resp.transport = "ok",
     hasBody |-> resp.transport = "ok" /\ resp.shape # "empty",
     errors |-> resp.errors,
     userErrors |-> resp.shape = "full" /\ resp.userErrors >= 1,
     translations |-> resp.shape = "full" /\ resp.translations >= 1]

\* ------------------------------------------------------ the helper code
\* makeGraphQLRequest: rethrows a rejected axios.post, returns response.data
\* otherwise, whatever the body holds.
makeGraphQLRequest(resp) ==
    IF resp.transport = "fail"
    THEN [threw |-> TRUE, error |-> <<ERR_GRAPHQL, ERR_NETWORK>>, data |-> resp]
    ELSE [threw |-> FALSE, error |-> <<>>, data |-> resp]

\* What the call leaves behind for inspection.
GqlRecord(resp) ==
    [called |-> TRUE, transportOk |-> resp.transport = "ok",
     bodyErrors |-> resp.errors, shape |-> resp.shape,
     threw |-> makeGraphQLRequest(resp).threw]

\* callGoogleTranslateAPI: response.data.data.translations[0].translatedText
callGoogleTranslateAPI(resp) ==
    IF resp.transport = "fail" THEN [threw |-> TRUE, text |-> <<>>]
    ELSE IF ~resp.wellFormed THEN [threw |-> TRUE, text |-> <<>>]
    ELSE [threw |-> FALSE, text |-> resp.text]

\* translateMetafieldContent, up to the await: the text sent as q.
TextPart(originalValue) == Split(originalValue)[1]

\* translateMetafieldContent whose catch returns the text part only.
translateMetafieldContent_FallbackTextPart(originalValue, resp) ==
    LET parts == Split(originalValue)
        technicalPart == Join(Slice1(parts))
        g == callGoogleTranslateAPI(resp)
    IN  IF g.threw THEN parts[1]
        ELSE IF Truthy(technicalPart) THEN g.text \o SEP \o technicalPart
        ELSE g.text

\* translateMetafieldContent, from the await on.
translateMetafieldContent(originalValue, resp) ==
    LET parts == Split(originalValue)
        technicalPart == Join(Slice1(parts))
        g == callGoogleTranslateAPI(resp)
    IN  IF g.threw THEN originalValue
        ELSE IF Truthy(technicalPart) THEN g.text \o SEP \o technicalPart
        ELSE g.text

\* getTranslatableContentDigest falling back to a placeholder digest.
getTranslatableContentDigest_Placeholder(resp, namespace, key) ==
    LET q == makeGraphQLRequest(resp)
        found == Find(resp.list, MetafieldKey(namespace, key))
    IN  IF q.threw THEN "d1"
        ELSE IF resp.shape # "full" THEN "d1"
        ELSE IF found = <<>> THEN "d1"
        ELSE found[1].digest

\* getTranslatableContentDigest: every failure is caught and yields null.
getTranslatableContentDigest(resp, namespace, key) ==
    LET q == makeGraphQLRequest(resp)
        found == Find(resp.list, MetafieldKey(namespace, key))
    IN  IF q.threw THEN "null"
        ELSE IF resp.shape # "full" THEN "null"
        ELSE IF found = <<>> THEN "null"
        ELSE found[1].digest

\* translations[1] read instead of translations[0].
MutationOutcome_SecondTranslation(resp) ==
    IF resp.transport = "fail" THEN "null"
    ELSE IF resp.shape = "empty" THEN "null"
    ELSE IF resp.shape = "full" /\ resp.userErrors > 0 THEN "null"
    ELSE IF resp.shape = "full" /\ resp.translations > 1 THEN "translation"
    ELSE "null"

\* The user-error test left out.
MutationOutcome_IgnoresUserErrors(resp) ==
    IF resp.transport = "fail" THEN "null"
    ELSE IF resp.shape = "empty" THEN "null"
    ELSE IF resp.shape = "full" /\ resp.translations > 0 THEN "translation"
    ELSE "null"

\* createTranslationWithCorrectMutation, from the mutation's await on.
MutationOutcome(resp) ==
    IF resp.transport = "fail" THEN "null"
    ELSE IF resp.shape = "empty" THEN "null"
    ELSE IF resp.shape = "full" /\ resp.userErrors > 0 THEN "null"
    ELSE IF resp.shape = "full" /\ resp.translations > 0 THEN "translation"
    ELSE "null"

\* registerTranslationInShopify, from the await on.
registerTranslationInShopify(resp) ==
    IF resp.transport = "fail" THEN "null" ELSE resp.body

\* createTranslationWithMutation (part_000), from the await on: the body as
\* it is, "errors" when it carries a top-level errors field.
createTranslationWithMutation(resp) ==
    IF resp.transport = "fail" THEN "null"
    ELSE IF resp.shape = "empty" THEN ""
    ELSE IF resp.errors THEN "errors"
    ELSE "object"

\* ------------------------------------------------- results and replies
Return(value, locale, isTranslated, source, message) ==
    [kind |-> "return", value |-> value, locale |-> locale,
     isTranslated |-> isTranslated, source |-> source, message |-> message,
     error |-> <<>>]

\* The outer catch of getOrCreateMetafieldTranslation wraps every error.
Throw(error) ==
    [kind |-> "throw", value |-> Null, locale |-> "undefined",
     isTranslated |-> FALSE, source |-> "undefined", message |-> "undefined",
     error |-> <<ERR_PREFIX>> \o error]

\* The handler answering 404 when the metafield was not found, as the
\* get-original-metafield endpoint does.
Respond_NotFound404(s, result) ==
    IF result.kind = "throw"
    THEN [NoHttp EXCEPT !.status = IF result.error = <<ERR_PREFIX, ERR_NOT_FOUND>>
                                   THEN 404 ELSE 500,
                        !.error = result.error]
    ELSE [status |-> 200, success |-> TRUE, error |-> <<>>,
          value |-> result.value, locale |-> result.locale,
          isTranslated |-> result.isTranslated, source |-> result.source,
          requestedLocale |-> s.targetLocale,
          metafieldKey |-> <<s.namespace, s.key>>,
          message |-> IF variant = "mt" /\ ~TruthyAtom(result.message)
                      THEN "Translation retrieved/created successfully"
                      ELSE result.message]

\* The handler's reply to the orchestrator's outcome.
Respond(s, result) ==
    IF result.kind = "throw"
    THEN [NoHttp EXCEPT !.status = 500, !.error = result.error]
    ELSE [status |-> 200, success |-> TRUE, error |-> <<>>,
          value |-> result.value, locale |-> result.locale,
          isTranslated |-> result.isTranslated, source |-> result.source,
          requestedLocale |-> s.targetLocale,
          metafieldKey |-> <<s.namespace, s.key>>,
          message |-> IF variant = "mt" /\ ~TruthyAtom(result.message)
                      THEN "Translation retrieved/created successfully"
                      ELSE result.message]

Issue(s, call) ==
    [s EXCEPT !.issued = Append(@, call), !.inflight = @ \cup {call}]

Complete(s, call) == [s EXCEPT !.inflight = @ \ {call}]

Finish(s, result) ==
    [s EXCEPT !.pc = "done", !.result = result, !.http = Respond(s, result)]

\* The test checking productId only.
MissingParameters_ProductOnly(body) == ~TruthyAtom(body.productId)

\* The required-parameter test of the handler.
MissingParameters(body) ==
    ~TruthyAtom(body.productId) \/ ~TruthyAtom(body.namespace)
        \/ ~TruthyAtom(body.key)

Bodies ==
    [productId : {"undefined", "", "gid://shopify/Product/111"},
     namespace : {"undefined", "custom"},
     key : {"undefined", "desc"},
     locale : {"undefined", "fr"}]

\* The test written as originalValue == null.
MetafieldMissing_OnlyAbsent(originalValue) == originalValue = Null

\* The test written as originalValue === ''.
MetafieldMissing_OnlyEmpty(originalValue) == originalValue = <<>>

\* if (!originalValue)
MetafieldMissing(originalValue) == ~Truthy(originalValue)

\* The test left out.
DigestMissing_Never(digest) == FALSE

\* if (!digest)
DigestMissing(digest) == ~TruthyAtom(digest)

\* The loop without its return: the next shape is probed after a success too.
ProbeNext_AfterSuccess(resp, endpoint) == endpoint < Len(Endpoints)

\* for (const endpoint of endpoints): a rejected POST is caught and the
\* loop continues with the next shape, if there is one.
ProbeNext(resp, endpoint) ==
    resp.transport = "fail" /\ endpoint < Len(Endpoints)

\* The test taken as always true.
Acknowledged_Always(autoTranslateResult) == TRUE

\* if (autoTranslateResult)
Acknowledged(autoTranslateResult) == TruthyAtom(autoTranslateResult)

\* The translation submitted to a registration transport: locale, dotted key
\* and value.
TranslationInput(s, value) ==
    [locale |-> s.targetLocale, key |-> MetafieldKey(s.namespace, s.key),
     value |-> value]

\* Step 4 onwards, entered when step 3 gave no translation: the "mt" variant
\* sends the text part to the translation API, the "nomt" variant submits
\* the mutation with the original value.
NextStrategy(s) ==
    IF variant = "mt"
    THEN Issue([s EXCEPT !.pc = "google", !.gtSent = TextPart(s.originalValue)],
               "googleTranslate")
    ELSE Issue([s EXCEPT !.pc = "plainMutation",
                         !.mutationSent = TranslationInput(s, s.originalValue)],
               "mutation")

\* One tag used by both files.
ExistingSource_SameInBoth == "existing_translation"

\* The source tag of the step-1 return, as each file spells it.
ExistingSource ==
    IF variant = "mt" THEN "existing_shopify_translation"
    ELSE "existing_translation"

\* ---------------------------------------------------------- the actions
\* POST /api/get-translated-metafield arrives; a valid body starts the
\* orchestrator, which runs up to its first await (the check query).
Receive(r) ==
    /\ inv[r].pc = "idle"
    /\ \E body \in Bodies :
         LET s == [inv[r] EXCEPT !.body = body] IN
         inv' = [inv EXCEPT ![r] =
            IF MissingParameters(body)
            THEN [s EXCEPT !.pc = "done",
                           !.http = [NoHttp EXCEPT !.status = 400,
                                                   !.error = <<ERR_MISSING>>]]
            ELSE Issue([s EXCEPT !.pc = "check",
                                 !.productId = body.productId,
                                 !.namespace = body.namespace,
                                 !.key = body.key,
                                 !.targetLocale =
                                     IF body.locale = "undefined" THEN "de"
                                     ELSE body.locale],
                       "checkQuery")]
    /\ UNCHANGED variant

\* Step 1: the existing-translation query answers.
CheckResponse(r) ==
    /\ inv[r].pc = "check"
    /\ \E resp \in CheckResponses(inv[r].namespace, inv[r].key) :
         LET q == makeGraphQLRequest(resp)
             s == [Complete(inv[r], "checkQuery") EXCEPT
                      !.gql = GqlRecord(resp),
                      !.checkSaw = ValuesUnder(resp,
                                      MetafieldKey(inv[r].namespace, inv[r].key))]
             existingTranslation ==
                 Find(resp.list, MetafieldKey(s.namespace, s.key))
         IN  inv' = [inv EXCEPT ![r] =
                IF q.threw THEN Finish(s, Throw(q.error))
                ELSE IF resp.shape # "full" THEN Finish(s, Throw(<<ERR_TYPE>>))
                ELSE IF existingTranslation # <<>>
                THEN Finish([s EXCEPT !.existingTranslation = existingTranslation],
                            Return(existingTranslation[1].value, s.targetLocale,
                                   TRUE, ExistingSource, "undefined"))
                ELSE Issue([s EXCEPT !.pc = "original"], "originalQuery")]
    /\ UNCHANGED variant

\* Step 2: the original-value query answers; on a truthy value the trigger
\* (its first endpoint) is called.
OriginalResponse(r) ==
    /\ inv[r].pc = "original"
    /\ \E resp \in OriginalResponses :
         LET q == makeGraphQLRequest(resp)
             s == [Complete(inv[r], "originalQuery") EXCEPT
                      !.gql = GqlRecord(resp),
                      !.origShape = IF resp.transport = "ok" THEN resp.shape
                                    ELSE "none"]
             originalValue ==
                 IF resp.shape = "nometafield" THEN Null ELSE resp.value
         IN  inv' = [inv EXCEPT ![r] =
                IF q.threw THEN Finish(s, Throw(q.error))
                ELSE IF resp.shape \in {"nodata", "noproduct"}
                THEN Finish(s, Throw(<<ERR_TYPE>>))
                ELSE IF MetafieldMissing(originalValue)
                THEN Finish([s EXCEPT !.originalValue = originalValue],
                            Throw(<<ERR_NOT_FOUND>>))
                ELSE Issue([s EXCEPT !.pc = "trigger",
                                     !.originalValue = originalValue,
                                     !.endpoint =
                                         IF variant = "mt" THEN Len(Endpoints)
                                         ELSE 1],
                           Endpoints[IF variant = "mt" THEN Len(Endpoints) ELSE 1])]
    /\ UNCHANGED variant

\* Step 3: an endpoint of triggerTranslateAndAdapt answers.
TriggerResponse(r) ==
    /\ inv[r].pc = "trigger"
    /\ \E resp \in PostResponses :
         LET s == [Complete(inv[r], Endpoints[inv[r].endpoint]) EXCEPT
                      !.triggerSaw = Append(@, resp)]
             autoTranslateResult == resp.body
         IN  inv' = [inv EXCEPT ![r] =
                IF ProbeNext(resp, s.endpoint)
                THEN Issue([s EXCEPT !.endpoint = @ + 1], Endpoints[s.endpoint + 1])
                ELSE IF resp.transport = "fail"
                THEN NextStrategy([s EXCEPT !.autoTranslateResult = "null"])
                ELSE IF Acknowledged(autoTranslateResult)
                THEN [s EXCEPT !.autoTranslateResult = autoTranslateResult,
                               !.pc = "delay"]
                ELSE NextStrategy([s EXCEPT !.autoTranslateResult =
                                                autoTranslateResult])]
    /\ UNCHANGED variant

\* One timer shared by the invocations: when it fires, every invocation
\* waiting on the settle delay resumes.
SettleDelay_SharedTimer(r) ==
    /\ inv[r].pc = "delay"
    /\ inv' = [q \in DOMAIN inv |->
                IF inv[q].pc = "delay"
                THEN Issue([inv[q] EXCEPT !.pc = "recheck", !.delays = @ + 1],
                           "recheckQuery")
                ELSE inv[q]]
    /\ UNCHANGED variant

\* The settle delay elapses and the check query is sent again.
SettleDelay(r) ==
    /\ inv[r].pc = "delay"
    /\ inv' = [inv EXCEPT ![r] =
                Issue([@ EXCEPT !.pc = "recheck", !.delays = @ + 1], "recheckQuery")]
    /\ UNCHANGED variant

\* The step-3 result carrying the original value instead of the rechecked one.
AutoTranslated_Original(s, autoTranslation) ==
    Return(s.originalValue, s.targetLocale, TRUE,
           IF variant = "mt" THEN "shopify_auto_translation"
           ELSE "auto_translation_created",
           "undefined")

\* The result returned when the recheck holds the key.
AutoTranslated(s, autoTranslation) ==
    Return(autoTranslation[1].value, s.targetLocale, TRUE,
           IF variant = "mt" THEN "shopify_auto_translation"
           ELSE "auto_translation_created",
           "undefined")

\* The recheck answers.
RecheckResponse(r) ==
    /\ inv[r].pc = "recheck"
    /\ \E resp \in CheckResponses(inv[r].namespace, inv[r].key) :
         LET q == makeGraphQLRequest(resp)
             s == [Complete(inv[r], "recheckQuery") EXCEPT
                      !.gql = GqlRecord(resp),
                      !.recheckSaw = ValuesUnder(resp,
                                      MetafieldKey(inv[r].namespace, inv[r].key))]
             autoTranslation == Find(resp.list, MetafieldKey(s.namespace, s.key))
         IN  inv' = [inv EXCEPT ![r] =
                IF q.threw THEN Finish(s, Throw(q.error))
                ELSE IF resp.shape # "full" THEN Finish(s, Throw(<<ERR_TYPE>>))
                ELSE IF autoTranslation # <<>>
                THEN Finish([s EXCEPT !.autoTranslation = autoTranslation],
                            AutoTranslated(s, autoTranslation))
                ELSE NextStrategy(s)]
    /\ UNCHANGED variant

MSG_GRAPHQL == "Translation created with Google Translate and registered in Shopify via GraphQL"
MSG_REST == "Translation created with Google Translate and registered in Shopify via REST"
MSG_ONLY == "Translation created with Google Translate (not registered in Shopify due to API limitations)"
MSG_MUTATION == "Translation entry created. You may need to edit it manually in Translate & Adapt app."
MSG_FALLBACK == "Could not create translation automatically. Please create it manually in Translate & Adapt app."

\* The result returned when the structured mutation succeeded.
GraphqlRegistered(s) ==
    Return(s.googleTranslatedValue, s.targetLocale, TRUE,
           "google_translate_registered_graphql", MSG_GRAPHQL)

\* AfterRest flagging the value as translated only when it differs from the
\* original.
AfterRest_HonestFlag(s, restResult) ==
    IF TruthyAtom(restResult)
    THEN Return(s.googleTranslatedValue, s.targetLocale,
                s.googleTranslatedValue # s.originalValue,
                "google_translate_registered_rest", MSG_REST)
    ELSE Return(s.googleTranslatedValue, s.targetLocale,
                s.googleTranslatedValue # s.originalValue,
                "google_translate_only", MSG_ONLY)

\* AfterRest returning the untranslated original.
AfterRest_Original(s, restResult) ==
    IF TruthyAtom(restResult)
    THEN Return(s.originalValue, s.targetLocale, TRUE,
                "google_translate_registered_rest", MSG_REST)
    ELSE Return(s.originalValue, s.targetLocale, TRUE,
                "google_translate_only", MSG_ONLY)

\* The result returned after the REST fallback: registered, or step 7.
AfterRest(s, restResult) ==
    IF TruthyAtom(restResult)
    THEN Return(s.googleTranslatedValue, s.targetLocale, TRUE,
                "google_translate_registered_rest", MSG_REST)
    ELSE Return(s.googleTranslatedValue, s.targetLocale, TRUE,
                "google_translate_only", MSG_ONLY)

\* Step 4 ("mt"): the translation API answers; translateMetafieldContent
\* returns and createTranslationWithCorrectMutation starts its digest lookup.
GoogleResponse(r) ==
    /\ inv[r].pc = "google"
    /\ \E resp \in GoogleResponses(inv[r].gtSent) :
         LET s == Complete(inv[r], "googleTranslate") IN
         inv' = [inv EXCEPT ![r] =
            Issue([s EXCEPT !.pc = "digest",
                            !.gtReply = resp,
                            !.googleTranslatedValue =
                                translateMetafieldContent(s.originalValue, resp)],
                  "digestLookup")]
    /\ UNCHANGED variant

\* Step 5 ("mt"): the digest lookup answers; without a digest the structured
\* mechanism returns null and the REST fallback is called, with one the
\* mutation is submitted.
DigestResponse(r) ==
    /\ inv[r].pc = "digest"
    /\ \E resp \in DigestResponses(inv[r].namespace, inv[r].key) :
         LET s == [Complete(inv[r], "digestLookup") EXCEPT
                      !.gql = GqlRecord(resp),
                      !.digestKeySeen =
                          KeyListed(resp, MetafieldKey(inv[r].namespace, inv[r].key))]
             digest == getTranslatableContentDigest(resp, s.namespace, s.key)
         IN  inv' = [inv EXCEPT ![r] =
                IF DigestMissing(digest)
                THEN Issue([s EXCEPT !.pc = "rest", !.digest = digest,
                                     !.mutationResult = "null",
                                     !.restSent =
                                         TranslationInput(s, s.googleTranslatedValue)],
                           "rest")
                ELSE Issue([s EXCEPT !.pc = "mutation", !.digest = digest,
                                     !.mutationSent =
                                         TranslationInput(s, s.googleTranslatedValue)],
                           "mutation")]
    /\ UNCHANGED variant

\* Step 5 ("mt"): the translationsRegister mutation answers.
MutationResponse(r) ==
    /\ inv[r].pc = "mutation"
    /\ \E resp \in MutationResponses :
         LET s == [Complete(inv[r], "mutation") EXCEPT
                      !.mutationSaw = MutationSaw(resp)]
             mutationResult == MutationOutcome(resp)
         IN  inv' = [inv EXCEPT ![r] =
                IF TruthyAtom(mutationResult)
                THEN Finish([s EXCEPT !.mutationResult = mutationResult],
                            GraphqlRegistered(s))
                ELSE Issue([s EXCEPT !.pc = "rest",
                                     !.mutationResult = mutationResult,
                                     !.restSent =
                                         TranslationInput(s, s.googleTranslatedValue)],
                           "rest")]
    /\ UNCHANGED variant

\* The REST registration sent a second time after a rejected first attempt.
RestResponse_RetryOnce(r) ==
    /\ inv[r].pc = "rest"
    /\ \E resp \in PostResponses :
         LET restResult == registerTranslationInShopify(resp)
             s == [Complete(inv[r], "rest") EXCEPT !.restResult = restResult]
         IN  inv' = [inv EXCEPT ![r] =
                IF resp.transport = "fail" /\ Len(SelectSeq(s.issued, LAMBDA c : c = "rest")) < 2
                THEN Issue(s, "rest")
                ELSE Finish(s, AfterRest(s, restResult))]
    /\ UNCHANGED variant

\* Steps 6 and 7 ("mt"): the REST registration answers.
RestResponse(r) ==
    /\ inv[r].pc = "rest"
    /\ \E resp \in PostResponses :
         LET restResult == registerTranslationInShopify(resp)
             s == [Complete(inv[r], "rest") EXCEPT !.restResult = restResult]
         IN  inv' = [inv EXCEPT ![r] = Finish(s, AfterRest(s, restResult))]
    /\ UNCHANGED variant

\* "nomt": createTranslationWithMutation answers.
PlainMutationResponse(r) ==
    /\ inv[r].pc = "plainMutation"
    /\ \E resp \in MutationResponses :
         LET mutationResult == createTranslationWithMutation(resp)
             s == [Complete(inv[r], "mutation") EXCEPT
                      !.mutationSaw = MutationSaw(resp),
                      !.mutationResult = mutationResult]
         IN  inv' = [inv EXCEPT ![r] =
                IF TruthyAtom(mutationResult) /\ mutationResult # "errors"
                THEN Finish(s, Return(s.originalValue, s.targetLocale, FALSE,
                                      "mutation_created", MSG_MUTATION))
                ELSE Finish(s, Return(s.originalValue, "en", FALSE,
                                      "original_fallback", MSG_FALLBACK))]
    /\ UNCHANGED variant

Next ==
    \E r \in Reqs :
        \/ Receive(r)
        \/ CheckResponse(r)
        \/ OriginalResponse(r)
        \/ TriggerResponse(r)
        \/ SettleDelay(r)
        \/ RecheckResponse(r)
        \/ GoogleResponse(r)
        \/ DigestResponse(r)
        \/ MutationResponse(r)
        \/ RestResponse(r)
        \/ PlainMutationResponse(r)

Spec == Init /\ [][Next]_vars

\* Every upstream call settles (axios resolves or rejects) and the settle
\* timer fires, so an invocation suspended at an await is resumed.
Settles ==
    \A r \in Reqs :
        /\ WF_vars(CheckResponse(r))
        /\ WF_vars(OriginalResponse(r))
        /\ WF_vars(TriggerResponse(r))
        /\ WF_vars(SettleDelay(r))
        /\ WF_vars(RecheckResponse(r))
        /\ WF_vars(GoogleResponse(r))
        /\ WF_vars(DigestResponse(r))
        /\ WF_vars(MutationResponse(r))
        /\ WF_vars(RestResponse(r))
        /\ WF_vars(PlainMutationResponse(r))

SpecFair == Init /\ [][Next]_vars /\ Settles

\* ------------------------------------------- two concurrent invocations
\* Express serves each request with its own call of the handler; the
\* handlers' awaits interleave freely on the one event loop.
ConcReqs == {"r1", "r2"}

\* The one request both clients send.
SameBody ==
    [productId |-> "gid://shopify/Product/111", namespace |-> "custom",
     key |-> "desc", locale |-> "fr"]

\* The requests and upstream answers of the two-invocation scenario: both
\* requests name the same resource, namespace, key and locale, and the
\* values the upstream carries are one per kind.
ConcScope(s) ==
    /\ s.body \in {NoBody, SameBody}
    /\ ~s.gql.bodyErrors
    /\ s.checkSaw \subseteq {<<"b">>}
    /\ s.recheckSaw \subseteq {<<"b">>}
    /\ s.originalValue \in {Null, <<"a">>}
    /\ s.gtReply.wellFormed = (s.gtReply.transport = "ok")
    /\ s.gtReply.text \in {<<>>, <<"b">>}
    /\ s.digest \in {"null", "d1"}
    /\ s.digestKeySeen = (s.digest = "d1")
    /\ s.mutationSaw.hasBody = s.mutationSaw.transportOk

InitConc ==
    /\ variant \in Variants
    /\ inv = [r \in ConcReqs |-> InitInv]

NextConc ==
    \E r \in ConcReqs :
        \/ Receive(r) /\ ConcScope(inv'[r])
        \/ CheckResponse(r) /\ ConcScope(inv'[r])
        \/ OriginalResponse(r) /\ ConcScope(inv'[r])
        \/ TriggerResponse(r) /\ ConcScope(inv'[r])
        \/ SettleDelay(r) /\ ConcScope(inv'[r])
        \/ RecheckResponse(r) /\ ConcScope(inv'[r])
        \/ GoogleResponse(r) /\ ConcScope(inv'[r])
        \/ DigestResponse(r) /\ ConcScope(inv'[r])
        \/ MutationResponse(r) /\ ConcScope(inv'[r])
        \/ RestResponse(r) /\ ConcScope(inv'[r])
        \/ PlainMutationResponse(r) /\ ConcScope(inv'[r])

SpecConc == InitConc /\ [][NextConc]_vars

\* ------------------------------------------------------------ the claims
Called(s, call) == \E i \in DOMAIN s.issued : s.issued[i] = call
Completed(s, call) == Called(s, call) /\ call \notin s.inflight
TriggerCalled(s) == \E i \in DOMAIN Endpoints : Called(s, Endpoints[i])
TriggerCompleted(s) ==
    TriggerCalled(s) /\ \A i \in DOMAIN Endpoints : Endpoints[i] \notin s.inflight
GoogleOk(s) == s.gtReply.transport = "ok" /\ s.gtReply.wellFormed
GoogleFailed(s) == s.gtReply.transport # "none" /\ ~GoogleOk(s)

\* C1: once step 2 found a non-empty original value, the invocation returns
\* a result with a non-empty value and does not throw, whatever the later
\* calls (trigger, recheck, translation, digest, mutation, REST) do.
C1_UsableValueOnceOriginalFound ==
    \A r \in Reqs :
        (Truthy(inv[r].originalValue) /\ inv[r].pc = "done")
            => /\ inv[r].result.kind = "return"
               /\ Truthy(inv[r].result.value)

\* C2: when the first existing-translation query carries the dotted key, the
\* result is that translation's value, isTranslated = true, and the check
\* query is the only call the invocation ever makes.
C2_ExistingTranslationReturned ==
    \A r \in Reqs :
        inv[r].checkSaw # {}
            => /\ inv[r].pc = "done"
               /\ inv[r].result.kind = "return"
               /\ inv[r].result.value \in inv[r].checkSaw
               /\ inv[r].result.value = inv[r].existingTranslation[1].value
               /\ inv[r].result.isTranslated
               /\ inv[r].issued = <<"checkQuery">>
               /\ inv[r].inflight = {}

C2_Witness ==
    \E r \in Reqs :
        /\ inv[r].checkSaw = {<<"b">>, <<"c">>}
        /\ inv[r].pc = "done"
        /\ inv[r].http.status = 200
        /\ inv[r].http.value = <<"c">>

OriginalAbsent(s) ==
    \/ s.origShape = "nometafield"
    \/ s.origShape = "full" /\ s.originalValue = Null

\* C3: with no existing translation and an absent original value, the
\* invocation fails with 'Metafield not found' and has made no trigger,
\* translation, digest or registration call.
C3_AbsentOriginalIsNotFound ==
    \A r \in Reqs :
        OriginalAbsent(inv[r])
            => /\ inv[r].pc = "done"
               /\ inv[r].result.kind = "throw"
               /\ inv[r].result.error = <<ERR_PREFIX, ERR_NOT_FOUND>>
               /\ inv[r].issued = <<"checkQuery", "originalQuery">>
               /\ inv[r].inflight = {}

C3_Witness ==
    \E r \in Reqs :
        /\ inv[r].origShape = "nometafield"
        /\ inv[r].checkSaw = {}
        /\ inv[r].result.kind = "throw"
        /\ inv[r].http.status = 500

\* Both registration mechanisms of the "mt" variant reported failure.
BothRegistrationsFailed(s) ==
    /\ variant = "mt"
    /\ s.pc = "done"
    /\ Completed(s, "rest")
    /\ s.mutationResult = "null"
    /\ ~TruthyAtom(s.restResult)

\* C4: ("mt") when the registration step is reached and both transports
\* fail, the invocation does not raise and returns isTranslated = true, a
\* non-empty value equal to translateMetafieldContent's output, the
\* requested locale and source = google_translate_only.
C4_BothRegistrationsFail ==
    \A r \in Reqs :
        BothRegistrationsFailed(inv[r])
            => /\ inv[r].result.kind = "return"
               /\ inv[r].result.isTranslated
               /\ Truthy(inv[r].result.value)
               /\ inv[r].result.value = inv[r].googleTranslatedValue
               /\ inv[r].result.locale = inv[r].targetLocale
               /\ inv[r].result.source = "google_translate_only"

\* The scenario of C5: no existing translation, a present original, a
\* trigger that returned null, a failed structured mutation, a REST
\* registration that succeeded.
RestScenario(s) ==
    /\ variant = "mt"
    /\ s.pc = "done"
    /\ s.checkSaw = {}
    /\ Truthy(s.originalValue)
    /\ TriggerCompleted(s) /\ s.autoTranslateResult = "null"
    /\ Completed(s, "digestLookup") /\ s.mutationResult = "null"
    /\ Completed(s, "rest") /\ TruthyAtom(s.restResult)

\* C5: ("mt") in that scenario the result is {value: the machine-translated
\* value, locale: the requested locale, isTranslated: true, source:
\* google_translate_registered_rest}.
C5_RestRegistered ==
    \A r \in Reqs :
        RestScenario(inv[r])
            => /\ inv[r].result.kind = "return"
               /\ inv[r].result.value = inv[r].googleTranslatedValue
               /\ inv[r].result.value =
                      translateMetafieldContent(inv[r].originalValue, inv[r].gtReply)
               /\ inv[r].result.locale = inv[r].targetLocale
               /\ inv[r].result.isTranslated
               /\ inv[r].result.source = "google_translate_registered_rest"
               /\ inv[r].http.status = 200
               /\ inv[r].http.value = inv[r].googleTranslatedValue
               /\ inv[r].http.source = "google_translate_registered_rest"

C5_Witness ==
    \E r \in Reqs :
        /\ RestScenario(inv[r])
        /\ inv[r].digest = "null"
        /\ inv[r].originalValue = <<"a", "a">>
        /\ GoogleOk(inv[r]) /\ inv[r].gtReply.text = <<"b">>
        /\ inv[r].http.value = <<"b">>
        /\ inv[r].http.locale = "de"

\* C6: when the original contains '~~' and the translation call succeeds,
\* only the text before the first separator is sent and the returned value
\* is <translation> '~~' <remainder after the first separator, unchanged>,
\* also when the remainder is empty or holds further separators; without a
\* separator the whole value is translated.
C6_CompositeRoundTrip ==
    \A r \in Reqs :
        LET s == inv[r]
            o == s.originalValue
            i == FirstSep(o)
        IN  (Completed(s, "googleTranslate") /\ GoogleOk(s))
                => IF i > 0
                   THEN /\ s.gtSent = SubSeq(o, 1, i - 1)
                        /\ s.googleTranslatedValue =
                               s.gtReply.text \o SEP \o SubSeq(o, i + 2, Len(o))
                   ELSE /\ s.gtSent = o
                        /\ s.googleTranslatedValue = s.gtReply.text

\* C7: if the translation API call fails, translateMetafieldContent returns
\* exactly the original value (technical segments included) and the
\* orchestrator goes on to registration with it instead of raising.
C7_TranslationFailureFallsBack ==
    \A r \in Reqs :
        LET s == inv[r] IN
        (Completed(s, "googleTranslate") /\ GoogleFailed(s))
            => /\ s.googleTranslatedValue = s.originalValue
               /\ Called(s, "digestLookup")
               /\ s.result.kind # "throw"
               /\ s.pc = "done" => /\ s.result.kind = "return"
                                   /\ s.result.value = s.originalValue

C7_Witness ==
    \E r \in Reqs :
        /\ inv[r].pc = "done"
        /\ GoogleFailed(inv[r])
        /\ inv[r].originalValue = <<"a", "~", "~", "a">>
        /\ inv[r].http.value = <<"a", "~", "~", "a">>
        /\ Completed(inv[r], "rest")

\* The place of a call in the chain.
Rank(call) ==
    CASE call = "checkQuery" -> 1
      [] call = "originalQuery" -> 2
      [] call = "recheckQuery" -> 4
      [] call = "googleTranslate" -> 5
      [] call = "digestLookup" -> 6
      [] call = "mutation" -> 7
      [] call = "rest" -> 8
      [] OTHER -> 3

\* C8: ("mt") the steps of one invocation are sequential and gated: no
\* translation call before the auto-translation step ended without a
\* result, no registration call before translation completed, no mutation
\* before the digest lookup returned a digest, no REST call before the
\* structured mechanism reported failure, and never two calls in flight.
C8_SequentialGatedSteps ==
    \A r \in Reqs :
        LET s == inv[r] IN
        /\ Cardinality(s.inflight) <= 1
        /\ variant = "mt" =>
            /\ \A i, j \in DOMAIN s.issued :
                   i < j => Rank(s.issued[i]) < Rank(s.issued[j])
            /\ Called(s, "googleTranslate") =>
                   /\ TriggerCompleted(s)
                   /\ \/ ~TruthyAtom(s.autoTranslateResult)
                      \/ Completed(s, "recheckQuery") /\ s.recheckSaw = {}
            /\ (Called(s, "digestLookup") \/ Called(s, "mutation")
                    \/ Called(s, "rest")) =>
                   /\ Completed(s, "googleTranslate")
                   /\ s.gtReply.transport # "none"
            /\ Called(s, "mutation") =>
                   /\ Completed(s, "digestLookup")
                   /\ TruthyAtom(s.digest)
            /\ Called(s, "rest") =>
                   /\ Completed(s, "digestLookup")
                   /\ s.mutationResult = "null"
                   /\ \/ ~TruthyAtom(s.digest) /\ ~Called(s, "mutation")
                      \/ Completed(s, "mutation")

C8_Witness ==
    \E r \in Reqs :
        /\ variant = "mt"
        /\ inv[r].pc = "done"
        /\ inv[r].issued = <<"checkQuery", "originalQuery", "translatable_resources",
                             "recheckQuery", "googleTranslate", "digestLookup",
                             "mutation", "rest">>

\* C9: makeGraphQLRequest fails both when the transport call fails and when
\* the body signals a request-level failure, and returns normally only
\* when neither holds.
C9_QueryClientFailsOnBodyErrors ==
    \A r \in Reqs :
        inv[r].gql.called
            => (inv[r].gql.threw
                    <=> (~inv[r].gql.transportOk \/ inv[r].gql.bodyErrors))

LacksParameter(body) ==
    \/ body.productId = "undefined"
    \/ body.namespace = "undefined"
    \/ body.key = "undefined"

\* C10: a POST whose body lacks productId, namespace or key is answered with
\* HTTP 400 and an error naming the missing fields, and the orchestrator is
\* not invoked: no upstream call is made for the request.
C10_MissingParameters ==
    \A r \in Reqs :
        (inv[r].pc # "idle" /\ LacksParameter(inv[r].body))
            => /\ inv[r].pc = "done"
               /\ inv[r].http.status = 400
               /\ inv[r].http.error = <<ERR_MISSING>>
               /\ ~inv[r].http.success
               /\ inv[r].issued = <<>>
               /\ inv[r].inflight = {}
               /\ inv[r].result.kind = "none"

C10_Witness ==
    \E r \in Reqs :
        /\ inv[r].body.productId = "gid://shopify/Product/111"
        /\ inv[r].body.namespace = "undefined"
        /\ inv[r].body.key = "undefined"
        /\ inv[r].http.status = 400

LastIssued(s) == IF s.issued = <<>> THEN "none" ELSE s.issued[Len(s.issued)]

\* The invocation ended on a rejected existing-translation or
\* original-value query.
QueryFailedFatally(s) ==
    /\ s.pc = "done"
    /\ LastIssued(s) \in {"checkQuery", "originalQuery", "recheckQuery"}
    /\ s.gql.called /\ ~s.gql.transportOk

\* C11: every fatal outcome of the orchestrator (metafield not found at step
\* 2, a failed existing-translation or original-value query) reaches the
\* caller as HTTP 500 with one wrapped message prefixed 'Failed to get or
\* create metafield translation:'; not-found has no status of its own and
\* no success body is sent.
C11_FatalOutcomesAre500 ==
    \A r \in Reqs :
        LET s == inv[r] IN
        /\ s.result.kind = "throw" =>
               /\ s.http.status = 500
               /\ ~s.http.success
               /\ s.http.error = s.result.error
               /\ Len(s.http.error) >= 2
               /\ s.http.error[1] = ERR_PREFIX
               /\ s.http.value = Null
        /\ OriginalAbsent(s) =>
               /\ s.http.status = 500
               /\ s.http.error = <<ERR_PREFIX, ERR_NOT_FOUND>>
        /\ QueryFailedFatally(s) =>
               /\ s.http.status = 500
               /\ s.http.error = <<ERR_PREFIX, ERR_GRAPHQL, ERR_NETWORK>>

C11_Witness ==
    \E r \in Reqs :
        /\ inv[r].origShape = "full"
        /\ inv[r].originalValue = Null
        /\ inv[r].http.status = 500
        /\ inv[r].http.error = <<ERR_PREFIX, ERR_NOT_FOUND>>

\* How often a call was issued.
Count(s, call) == Cardinality({i \in DOMAIN s.issued : s.issued[i] = call})

\* Step 3's trigger has returned.
TriggerReturned(s) == TriggerCompleted(s) /\ s.pc # "trigger"

\* C12: the post-trigger recheck runs at most once per invocation, and only
\* after the trigger acknowledged and the settle delay elapsed; a trigger
\* that returns null means no delay and no recheck; a recheck without the
\* key moves on without repeating trigger, delay or recheck.
C12_SingleRecheck ==
    \A r \in Reqs :
        LET s == inv[r] IN
        /\ Count(s, "recheckQuery") <= 1
        /\ s.delays <= 1
        /\ \A i \in DOMAIN Endpoints : Count(s, Endpoints[i]) <= 1
        /\ Called(s, "recheckQuery") =>
               /\ TriggerReturned(s)
               /\ TruthyAtom(s.autoTranslateResult)
               /\ s.delays = 1
        /\ s.pc = "delay" => TriggerReturned(s) /\ TruthyAtom(s.autoTranslateResult)
        /\ (TriggerReturned(s) /\ s.autoTranslateResult = "null") =>
               /\ s.delays = 0
               /\ ~Called(s, "recheckQuery")
               /\ s.pc # "delay"
        /\ (Completed(s, "recheckQuery") /\ s.gql.transportOk
                /\ s.recheckSaw = {} /\ s.pc # "done") =>
               /\ s.pc \in {"google", "digest", "mutation", "rest", "plainMutation"}
               /\ \A i \in DOMAIN s.issued :
                      s.issued[i] = "recheckQuery" =>
                          \A j \in DOMAIN s.issued :
                              j > i => Rank(s.issued[j]) > Rank("recheckQuery")

C12_Witness ==
    \E r \in Reqs :
        /\ inv[r].delays = 1
        /\ Completed(inv[r], "recheckQuery")
        /\ inv[r].recheckSaw = {}
        /\ inv[r].pc = "done"
        /\ inv[r].result.kind = "return"

\* C13: when the trigger acknowledges and the single recheck holds the
\* dotted key, the rechecked translation's value is returned unchanged with
\* isTranslated = true, the requested locale and the source
\* shopify_auto_translation ("mt") or auto_translation_created ("nomt"),
\* and no translation, digest or registration call is made.
C13_AutoTranslationReturned ==
    \A r \in Reqs :
        LET s == inv[r] IN
        s.recheckSaw # {}
            => /\ TruthyAtom(s.autoTranslateResult)
               /\ s.pc = "done"
               /\ s.result.kind = "return"
               /\ s.result.value \in s.recheckSaw
               /\ s.result.value = s.autoTranslation[1].value
               /\ s.result.isTranslated
               /\ s.result.locale = s.targetLocale
               /\ s.result.source = IF variant = "mt" THEN "shopify_auto_translation"
                                    ELSE "auto_translation_created"
               /\ s.http.status = 200 /\ s.http.value = s.result.value
               /\ LastIssued(s) = "recheckQuery"
               /\ ~Called(s, "googleTranslate") /\ ~Called(s, "digestLookup")
               /\ ~Called(s, "mutation") /\ ~Called(s, "rest")

C13_Witness ==
    \E r \in Reqs :
        /\ variant = "nomt"
        /\ inv[r].recheckSaw = {<<"c">>}
        /\ inv[r].originalValue = <<"a", "~", "~", "a">>
        /\ inv[r].http.value = <<"c">>
        /\ inv[r].http.source = "auto_translation_created"

\* C14: in createTranslationWithCorrectMutation, when the digest lookup
\* yields no digest (the key is not among the translatable content, or the
\* lookup failed), the mechanism returns null at once and the
\* translationsRegister mutation is never submitted.
C14_NoDigestNoMutation ==
    \A r \in Reqs :
        LET s == inv[r] IN
        (variant = "mt" /\ Completed(s, "digestLookup") /\ ~s.digestKeySeen)
            => /\ s.digest = "null"
               /\ s.mutationResult = "null"
               /\ ~Called(s, "mutation")
               /\ Called(s, "rest")
               /\ s.result.source # "google_translate_registered_graphql"

C14_Witness ==
    \E r \in Reqs :
        /\ variant = "mt"
        /\ Completed(inv[r], "digestLookup")
        /\ inv[r].gql.transportOk /\ inv[r].gql.shape = "full"
        /\ ~inv[r].digestKeySeen
        /\ inv[r].pc = "done"
        /\ inv[r].result.source = "google_translate_registered_rest"

\* C15: ("mt") a structured mutation response with at least one field-level
\* user error counts as failure although the transport call succeeded:
\* createTranslationWithCorrectMutation returns null, the invocation never
\* returns google_translate_registered_graphql, and the REST transport is
\* called next.
C15_UserErrorsAreFailure ==
    \A r \in Reqs :
        LET s == inv[r] IN
        (variant = "mt" /\ s.mutationSaw.answered /\ s.mutationSaw.userErrors)
            => /\ s.mutationSaw.transportOk
               /\ s.mutationResult = "null"
               /\ Called(s, "rest")
               /\ s.result.source # "google_translate_registered_graphql"
               /\ s.http.source # "google_translate_registered_graphql"

C15_Witness ==
    \E r \in Reqs :
        /\ variant = "mt"
        /\ inv[r].mutationSaw.userErrors
        /\ inv[r].mutationSaw.translations
        /\ inv[r].pc = "done"
        /\ inv[r].result.source = "google_translate_only"

\* The position of the first issue of a call, 0 if it was never issued.
Pos(s, call) ==
    IF Called(s, call)
    THEN CHOOSE i \in DOMAIN s.issued :
             s.issued[i] = call /\ \A j \in DOMAIN s.issued : s.issued[j] = call => i <= j
    ELSE 0

\* The upstream registered the translation through the mutation.
MutationSucceeded(s) ==
    /\ s.mutationSaw.answered
    /\ s.mutationSaw.translations
    /\ ~s.mutationSaw.userErrors

\* C16: ("mt") the registration mechanisms are tried in the order structured
\* mutation, then REST, each at most once; when the mutation succeeds the
\* result is the machine-translated value with isTranslated = true and
\* source google_translate_registered_graphql and REST is never called, so
\* at most one registration succeeds per invocation.
C16_RegistrationOrder ==
    \A r \in Reqs :
        LET s == inv[r] IN
        variant = "mt" =>
            /\ Count(s, "digestLookup") <= 1
            /\ Count(s, "mutation") <= 1
            /\ Count(s, "rest") <= 1
            /\ Called(s, "rest") =>
                   /\ Called(s, "digestLookup")
                   /\ Pos(s, "digestLookup") < Pos(s, "rest")
                   /\ Called(s, "mutation") => Pos(s, "mutation") < Pos(s, "rest")
            /\ MutationSucceeded(s) =>
                   /\ s.pc = "done"
                   /\ s.result.kind = "return"
                   /\ s.result.source = "google_translate_registered_graphql"
                   /\ s.result.value = s.googleTranslatedValue
                   /\ s.result.isTranslated
                   /\ s.result.locale = s.targetLocale
                   /\ ~Called(s, "rest")
            /\ ~(MutationSucceeded(s) /\ TruthyAtom(s.restResult))
            /\ s.result.source = "google_translate_registered_graphql" =>
                   MutationSucceeded(s)

C16_Witness ==
    \E r \in Reqs :
        /\ variant = "mt"
        /\ MutationSucceeded(inv[r])
        /\ inv[r].originalValue = <<"a", "~", "~", "a">>
        /\ GoogleOk(inv[r]) /\ inv[r].gtReply.text = <<"b">>
        /\ inv[r].http.value = <<"b", "~", "~", "a">>
        /\ inv[r].http.source = "google_translate_registered_graphql"

\* C17: ("nomt") when step 3 yields no translation the mutation is submitted
\* with the original value; the result is {original, requested locale,
\* isTranslated false, mutation_created} exactly when the mutation succeeded
\* (transport succeeded, a body without request-level errors and without
\* field-level user errors), otherwise {original, 'en', isTranslated false,
\* original_fallback}; it never raises.
C17_PlainMutationOutcome ==
    \A r \in Reqs :
        LET s == inv[r]
            succeeded == /\ s.mutationSaw.hasBody
                         /\ ~s.mutationSaw.errors
                         /\ ~s.mutationSaw.userErrors
        IN  (variant = "nomt" /\ s.mutationSaw.answered)
                => /\ s.pc = "done"
                   /\ s.result.kind = "return"
                   /\ s.result.value = s.originalValue
                   /\ ~s.result.isTranslated
                   /\ IF succeeded
                      THEN /\ s.result.source = "mutation_created"
                           /\ s.result.locale = s.targetLocale
                      ELSE /\ s.result.source = "original_fallback"
                           /\ s.result.locale = "en"

\* C18 as claimed: an existing translation found at step 1 is returned with
\* source existing_translation (isTranslated = true, locale = requested
\* locale) in both repository variants.
C18_ExistingTagInBothVariants ==
    \A r \in Reqs :
        LET s == inv[r] IN
        (s.checkSaw # {} /\ s.pc = "done")
            => /\ s.result.source = "existing_translation"
               /\ s.result.isTranslated
               /\ s.result.locale = s.targetLocale

\* C18 as amended: the source tag is existing_translation in part_000 and
\* existing_shopify_translation in index.js; isTranslated = true and
\* locale = requested locale in both.
C18_ExistingTagPerVariant ==
    \A r \in Reqs :
        LET s == inv[r] IN
        (s.checkSaw # {} /\ s.pc = "done")
            => /\ s.result.kind = "return"
               /\ variant = "nomt" => s.result.source = "existing_translation"
               /\ variant = "mt" => s.result.source = "existing_shopify_translation"
               /\ s.http.source = s.result.source
               /\ s.result.isTranslated
               /\ s.result.locale = s.targetLocale

C18_Witness ==
    \E r \in Reqs :
        /\ variant = "mt"
        /\ inv[r].checkSaw = {<<"b">>}
        /\ inv[r].body.locale = "fr"
        /\ inv[r].http.locale = "fr"
        /\ inv[r].http.source = "existing_shopify_translation"

\* The trigger calls of an invocation, in the order issued.
TriggerCalls(s) == SelectSeq(s.issued, LAMBDA c : Rank(c) = 3)

AllShapesFailed(s) ==
    /\ Len(s.triggerSaw) = Len(Endpoints)
    /\ \A i \in DOMAIN s.triggerSaw : s.triggerSaw[i].transport = "fail"

\* C19: (three-endpoint trigger, "nomt") the shapes are tried in their
\* listed order, probing stops at the first shape whose POST succeeds and
\* that response is returned, a failed shape never propagates its error,
\* and null is returned if and only if all three shapes failed.
C19_EndpointProbing ==
    \A r \in Reqs :
        LET s == inv[r]
            calls == TriggerCalls(s)
        IN  variant = "nomt" =>
            /\ Len(calls) <= Len(Endpoints)
            /\ calls = SubSeq(Endpoints, 1, Len(calls))
            /\ Len(s.triggerSaw) <= Len(calls)
            /\ Len(calls) <= Len(s.triggerSaw) + 1
            /\ \A i \in DOMAIN s.triggerSaw :
                   /\ i < Len(calls) => s.triggerSaw[i].transport = "fail"
                   /\ s.triggerSaw[i].transport = "ok" =>
                          /\ i = Len(calls)
                          /\ s.autoTranslateResult = s.triggerSaw[i].body
            /\ TriggerReturned(s) =>
                   /\ s.autoTranslateResult = "null" <=> AllShapesFailed(s)
                   /\ AllShapesFailed(s) \/ s.triggerSaw[Len(s.triggerSaw)].transport = "ok"
            /\ s.result.kind = "throw" => Rank(LastIssued(s)) # 3

C19_Witness ==
    \E r \in Reqs :
        /\ variant = "nomt"
        /\ Len(inv[r].triggerSaw) = 2
        /\ inv[r].triggerSaw[1].transport = "fail"
        /\ inv[r].triggerSaw[2].transport = "ok"
        /\ inv[r].autoTranslateResult = "object"
        /\ inv[r].pc = "done"

\* What an invocation has heard: its request, the answers to its own
\* upstream calls and its own timer.
Heard(s) ==
    [body |-> s.body, checkSaw |-> s.checkSaw, origShape |-> s.origShape,
     originalValue |-> s.originalValue, triggerSaw |-> s.triggerSaw,
     delays |-> s.delays, recheckSaw |-> s.recheckSaw, gtReply |-> s.gtReply,
     digestKeySeen |-> s.digestKeySeen, digest |-> s.digest,
     mutationSaw |-> s.mutationSaw, restResult |-> s.restResult,
     gql |-> s.gql]

RegistrationCalls == {"mutation", "rest"}

\* Two finished invocations that heard the same have the same outcome.
OwnResponsesDecide ==
    \A r \in DOMAIN inv : \A q \in DOMAIN inv :
        (inv[r].pc = "done" /\ inv[q].pc = "done"
             /\ Heard(inv[r]) = Heard(inv[q]))
        => /\ inv[r].result = inv[q].result
           /\ inv[r].http = inv[q].http

\* A step of one invocation leaves the other as it was.
StepsAreLocal ==
    \A r \in DOMAIN inv : \A q \in DOMAIN inv \ {r} :
        inv'[r] # inv[r] => inv'[q] = inv[q]

\* C20: two concurrent invocations for the same resource, namespace, key
\* and locale share no state and are not coordinated: a step of one never
\* changes the other, and the outcome of each is decided by what it heard
\* from its own upstream calls (the duplicate registration attempts are the
\* state of C20_Witness).
C20_Uncoordinated == []OwnResponsesDecide /\ [][StepsAreLocal]_vars

\* Both invocations found no existing translation and both have a
\* registration call for the same key and locale in flight.
C20_Witness ==
    /\ DOMAIN inv = ConcReqs
    /\ \A r \in ConcReqs :
          /\ inv[r].body = SameBody
          /\ inv[r].checkSaw = {}
          /\ inv[r].inflight \cap RegistrationCalls # {}

\* The calls of index.js, the trigger under the one shape it uses.
BudgetedCalls ==
    {"checkQuery", "recheckQuery", "originalQuery", Endpoints[Len(Endpoints)],
     "googleTranslate", "digestLookup", "mutation", "rest"}

\* No call is issued twice and none outside the listed ones.
WithinBudget(s) ==
    /\ \A i \in DOMAIN s.issued : s.issued[i] \in BudgetedCalls
    /\ \A call \in BudgetedCalls : Count(s, call) <= 1
    /\ Count(s, "checkQuery") + Count(s, "recheckQuery") <= 2
    /\ Len(s.issued) <= Cardinality(BudgetedCalls)

Terminated(s) == s.pc = "done" /\ s.inflight = {}

\* C21: ("mt") when every upstream call settles, an invocation that has
\* started ends, with a result or a thrown error, and it issues at most two
\* existing-translation queries and one each of the original-value query,
\* the trigger, the translation call, the digest lookup, the mutation and
\* the REST call; no call is repeated.
C21_TerminatesWithinBudget ==
    /\ [](\A r \in Reqs : variant = "mt" => WithinBudget(inv[r]))
    /\ \A r \in Reqs :
          (variant = "mt" /\ inv[r].pc # "idle")
              ~> (Terminated(inv[r]) /\ (inv[r].result.kind \in {"return", "throw"}
                                            \/ inv[r].http.status = 400))

\* An invocation that ended after spending the whole budget.
C21_Witness ==
    \E r \in Reqs :
        /\ variant = "mt"
        /\ Terminated(inv[r])
        /\ inv[r].result.kind = "return"
        /\ \A call \in BudgetedCalls : Count(inv[r], call) = 1

\* The locale the request asked for ('de' when it names none).
RequestedLocale(body) == IF body.locale = "undefined" THEN "de" ELSE body.locale

\* The original value offered as the translation for the requested locale.
OriginalAsTranslation(s) ==
    [locale |-> RequestedLocale(s.body),
     key |-> MetafieldKey(s.body.namespace, s.body.key),
     value |-> s.originalValue]

GoogleSources ==
    {"google_translate_registered_graphql", "google_translate_registered_rest",
     "google_translate_only"}

\* C22: ("mt") when the translation API call failed, the registration
\* transports that are called are sent the untranslated original value for
\* the requested locale, and at least one of them is called; every
\* invocation that reached step 4 ends with a returned result whose
\* isTranslated is true, whose locale is the requested one and whose source
\* is a google_translate_* tag, the value being the original when the
\* translation failed.
C22_AlwaysFlaggedTranslated ==
    \A r \in Reqs :
        LET s == inv[r] IN
        variant = "mt" =>
        /\ (Completed(s, "googleTranslate") /\ GoogleFailed(s)) =>
              /\ Called(s, "mutation") => s.mutationSent = OriginalAsTranslation(s)
              /\ Called(s, "rest") => s.restSent = OriginalAsTranslation(s)
              /\ Completed(s, "digestLookup") =>
                     Called(s, "mutation") \/ Called(s, "rest")
              /\ s.pc = "done" => s.result.value = s.originalValue
        /\ (Called(s, "googleTranslate") /\ s.pc = "done") =>
              /\ s.result.kind = "return"
              /\ s.result.isTranslated
              /\ s.result.locale = RequestedLocale(s.body)
              /\ s.result.source \in GoogleSources
              /\ s.http.status = 200
              /\ s.http.isTranslated
              /\ s.http.locale = RequestedLocale(s.body)

\* The translation failed, the original was sent to both transports, both
\* refused it, and the original came back flagged as translated.
C22_Witness ==
    \E r \in Reqs :
        /\ variant = "mt"
        /\ inv[r].pc = "done"
        /\ GoogleFailed(inv[r])
        /\ inv[r].originalValue = <<"a">>
        /\ inv[r].mutationSent.value = <<"a">>
        /\ inv[r].restSent.value = <<"a">>
        /\ inv[r].result.value = <<"a">>
        /\ inv[r].result.isTranslated
        /\ inv[r].result.source = "google_translate_only"

\* The original-value query answered with a metafield whose value is ''.
OriginalEmpty(s) == s.origShape = "full" /\ s.originalValue = <<>>

\* The outcome of an absent metafield: 'Metafield not found' after the two
\* queries, answered with 500, nothing else called.
NotFoundOutcome(s) ==
    /\ s.pc = "done"
    /\ s.result = Throw(<<ERR_NOT_FOUND>>)
    /\ s.http = [NoHttp EXCEPT !.status = 500,
                               !.error = <<ERR_PREFIX, ERR_NOT_FOUND>>]
    /\ s.issued = <<"checkQuery", "originalQuery">>
    /\ s.inflight = {}
    /\ s.triggerSaw = <<>>
    /\ s.gtReply = NoGoogle
    /\ s.mutationSent = NoInput
    /\ s.restSent = NoInput

\* C23: (both variants) a metafield whose value is the empty string ends
\* the invocation as an absent one does, with 'Metafield not found' and no
\* trigger, translation or registration call; a returned result therefore
\* comes from a non-empty original, and an empty returned value is never the
\* original's but the translation API's own output.
C23_EmptyValueIsAbsent ==
    \A r \in Reqs :
        LET s == inv[r] IN
        /\ (OriginalEmpty(s) \/ OriginalAbsent(s)) => NotFoundOutcome(s)
        /\ (s.result.kind = "return" /\ Called(s, "originalQuery")) =>
              /\ s.originalValue \notin {Null, <<>>}
              /\ s.result.value = s.originalValue => s.result.value # <<>>
              /\ s.result.value = <<>> =>
                     (variant = "mt" /\ GoogleOk(s) /\ s.gtReply.text = <<>>)

C23_Witness ==
    \E r \in Reqs :
        /\ OriginalEmpty(inv[r])
        /\ inv[r].pc = "done"
        /\ inv[r].result.error = <<ERR_PREFIX, ERR_NOT_FOUND>>
        /\ inv[r].http.status = 500

====
